---- MODULE Spec2Model ----
(***************************************************************************)
(* The background mission queue of peter-pixx-app: the Mission Ledger      *)
(* (React state `missions`, persisted in localStorage), the Result Store   *)
(* (IndexedDB), the scheduler effect and processMission.                   *)
(*                                                                         *)
(* React is modelled as: setMissions calls are queued in `updates`; a      *)
(* Render step applies every queued updater in order, commits the new      *)
(* list and runs the effects that depend on `missions` (save, scheduler).  *)
(* Each running processMission invocation is one entry of `procs`, parked  *)
(* at one of its awaits. An optional JS value is <<>> (undefined) or <<v>>.*)
(***************************************************************************)
EXTENDS Integers, Sequences, FiniteSets, TLC

\* ------------------------------------------------------------------ bounds
MaxMissions == 2   \* calls of handleStartMission in one behaviour
MaxPolls == 1      \* polls of one processMission run that may answer not done
MaxQueue == 2      \* user actions queued before the render that follows them

\* ---------------------------------------------------------- input domains
MissionTypes == {"image-gen", "video-gen"}
Prompts == {"a cat", "a dog"}
\* responses of ai.models.generateImages: the generatedImages list
ImageResponses == { <<>>, <<[image |-> [imageBytes |-> "png1"]], [image |-> [imageBytes |-> "png2"]]>> }
\* what a failed await throws: the remote client and fetch an Error, the
\* transaction of saveResult its tx.error, which is null when a request
\* failed, and openDB its request.error, a DOMException
RemoteThrown == { [isError |-> TRUE, message |-> "Failed to fetch"] }
StoreThrown == { [isError |-> FALSE, message |-> ""],
                 [isError |-> TRUE, message |-> "UnknownError"] }
\* localStorage.setItem: TRUE when it returns, FALSE when it throws (quota);
\* the quota is taken not to be exhausted
SetItemOutcomes == {TRUE}
OperationNames == {"operations/a"}
\* bodies a fetch of the download link can deliver, the blob as its chunks
FetchBodies == { [ok |-> TRUE, blob |-> <<"mp4">>], [ok |-> FALSE, blob |-> <<"error-body">>] }

Undefined == <<>>
Some(v) == <<v>>

\* ------------------------------------------------------------ state
VARIABLES
  missions,   \* committed React state: the in-memory ledger
  updates,    \* setMissions calls queued for the next render
  procs,      \* running processMission invocations
  storage,    \* localStorage['peter-pixx-missions']: <<>> or <<json>>
  store,      \* IndexedDB object store missionResults: id -> <<>> or <<payload>>
  now,        \* last value read from Date.now(), in milliseconds since page one
  elapsed,    \* TRUE when at least a millisecond has passed since that read
  enqueued,   \* calls of handleStartMission so far
  phase,      \* "unmounted" (page loading), "mounted" or "crashed"
  preview     \* the PreviewModal: the mission it shows and what getResult gave it

vars == <<missions, updates, procs, storage, store, now, elapsed, enqueued, phase, preview>>

Ids == 1..MaxMissions

\* no PreviewModal is open
PreviewClosed == [id |-> 0, isLoading |-> FALSE, storedResult |-> Undefined, rejected |-> FALSE]

\* ------------------------------------------------------------ Mission
MissionKeys == {"id", "type", "prompt", "status", "progressMessage", "result", "error", "createdAt", "operation"}
OptionalKeys == {"progressMessage", "result", "error", "operation"}

loadingMessages == << "Brewing cosmic coffee for the AI...",
                      "Teaching pixels to dance...",
                      "This can take a few minutes...",
                      "Reticulating splines...",
                      "Finalizing the motion picture..." >>

\* a merge that rebuilds the mission from the update and carries over every
\* field but the prompt (C24 does not hold of it)
Spread_losesPrompt(m, u) ==
  [k \in MissionKeys |-> IF k \in DOMAIN u THEN u[k]
                         ELSE IF k = "prompt" THEN "" ELSE m[k]]

\* a merge that keeps of the old mission only its required fields (C13 does
\* not hold of it)
Spread_dropsOptional(m, u) ==
  [k \in MissionKeys |-> IF k \in DOMAIN u THEN u[k]
                         ELSE IF k \in OptionalKeys THEN Undefined ELSE m[k]]

\* { ...m, ...updates }
Spread(m, u) == [k \in MissionKeys |-> IF k \in DOMAIN u THEN u[k] ELSE m[k]]

\* ------------------------------------------------------------ JSON
\* JSON.stringify of an operation handle: an undefined uri is dropped
StringifyOperation(op) ==
  [k \in {"name", "done"} \cup (IF op.uri # Undefined THEN {"uri"} ELSE {}) |->
     IF k = "uri" THEN op.uri[1] ELSE op[k]]

ParseOperation(j) ==
  [name |-> j.name, done |-> j.done,
   uri |-> IF "uri" \in DOMAIN j THEN Some(j.uri) ELSE Undefined]

\* JSON.stringify of one Mission: keys whose value is undefined are dropped
StringifyMission(m) ==
  [k \in {k \in MissionKeys : k \notin OptionalKeys \/ m[k] # Undefined} |->
     IF k = "operation" THEN StringifyOperation(m[k][1])
     ELSE IF k \in OptionalKeys THEN m[k][1]
     ELSE m[k]]

\* JSON.parse of one Mission: a key that is absent reads as undefined
ParseMission(j) ==
  [k \in MissionKeys |->
     IF k \notin DOMAIN j THEN Undefined
     ELSE IF k = "operation" THEN Some(ParseOperation(j[k]))
     ELSE IF k \in OptionalKeys THEN Some(j[k])
     ELSE j[k]]

\* a serialisation that writes the list back to front (C14 does not hold of
\* it)
JSONstringify_reversed(ms) == [i \in 1..Len(ms) |-> StringifyMission(ms[Len(ms) + 1 - i])]

JSONstringify(ms) == [i \in 1..Len(ms) |-> StringifyMission(ms[i])]
JSONparse(text) == [i \in 1..Len(text) |-> ParseMission(text[i])]

\* what else the key can hold: "" and text that is no JSON, and JSON that is
\* no array (null, a number, an object)
ForeignTexts == { [syntax |-> syntax, items |-> <<>>] : syntax \in {"empty", "corrupt", "value"} }

\* getMissionsFromStorage: the value it returns, `items` being its elements
\* when it is an array. A missing key and "" give [], text that JSON.parse
\* rejects gives [] through the catch, any other text what JSON.parse makes
\* of it
getMissionsFromStorage ==
  IF storage = Undefined \/ storage[1].syntax = "empty" THEN [isArray |-> TRUE, items |-> <<>>]
  ELSE IF storage[1].syntax = "corrupt" THEN [isArray |-> TRUE, items |-> <<>>]
  ELSE IF storage[1].syntax = "array" THEN [isArray |-> TRUE, items |-> JSONparse(storage[1].items)]
  ELSE [isArray |-> FALSE, items |-> <<>>]

\* saveMissionsToStorage: setItem may throw (quota); the error is swallowed
saveMissionsToStorage(ms, setItemOk) ==
  IF setItemOk THEN Some([syntax |-> "array", items |-> JSONstringify(ms)]) ELSE storage

\* ------------------------------------------------------------ updaters
UpdateMission(id, fields) == [kind |-> "update", id |-> id, arg |-> fields]
AppendMission(m) == [kind |-> "append", id |-> 0, arg |-> m]
SetMissions(ms) == [kind |-> "set", id |-> 0, arg |-> ms]
ClearCompleted == [kind |-> "clear", id |-> 0, arg |-> <<>>]

IsUnfinished(m) == m.status = "in-progress" \/ m.status = "pending"
IsTerminal(m) == ~IsUnfinished(m)

\* the updater functions handed to setMissions, applied to prev
ApplyUpdate(u, prev) ==
  CASE u.kind = "update" ->
         [i \in 1..Len(prev) |-> IF prev[i].id = u.id THEN Spread(prev[i], u.arg) ELSE prev[i]]
    [] u.kind = "append" -> Append(prev, u.arg)
    [] u.kind = "set" -> u.arg
    [] u.kind = "clear" -> SelectSeq(prev, LAMBDA m : m.status # "completed" /\ m.status # "failed")

\* a commit in which every queued write was computed from the list of the
\* last render, so that the last one replaces the others (C22 does not hold
\* of it)
ApplyAll_lastWriteWins(us, prev) ==
  IF us = <<>> THEN prev ELSE ApplyUpdate(us[Len(us)], prev)

RECURSIVE ApplyAll(_, _)
ApplyAll(us, prev) ==
  IF us = <<>> THEN prev ELSE ApplyAll(Tail(us), ApplyUpdate(Head(us), prev))

\* a reconciliation that puts only the requeued missions in memory when
\* there are any (C26 does not hold of it)
Reconcile_dropsCompleted(loadedMissions) ==
  LET unfinishedMissions == SelectSeq(loadedMissions, IsUnfinished)
      requeued == [i \in 1..Len(unfinishedMissions) |->
                     Spread(unfinishedMissions[i], [status |-> "pending"])]
  IN IF Len(unfinishedMissions) > 0 THEN requeued ELSE loadedMissions

\* a reconciliation that hands the stored list on as it is (C4 does not
\* hold of it)
Reconcile_keepsInProgress(loadedMissions) == loadedMissions

\* the load effect's reconciliation of the stored list
Reconcile(loadedMissions) ==
  LET unfinishedMissions == SelectSeq(loadedMissions, IsUnfinished)
      requeued == [i \in 1..Len(unfinishedMissions) |->
                     Spread(unfinishedMissions[i], [status |-> "pending"])]
      completed == SelectSeq(loadedMissions, IsTerminal)
  IN IF Len(unfinishedMissions) > 0 THEN completed \o requeued ELSE loadedMissions

\* a find that gives up once a mission has failed (C8 does not hold of it)
FindPending_stopsAfterFailure(ms) ==
  IF \E i \in 1..Len(ms) : ms[i].status = "failed"
  THEN 0
  ELSE IF \E i \in 1..Len(ms) : ms[i].status = "pending"
  THEN CHOOSE i \in 1..Len(ms) :
         /\ ms[i].status = "pending"
         /\ \A j \in 1..(i - 1) : ms[j].status # "pending"
  ELSE 0

\* missions.find(m => m.status === 'pending'): index of the first, 0 if none
FindPending(ms) ==
  IF \E i \in 1..Len(ms) : ms[i].status = "pending"
  THEN CHOOSE i \in 1..Len(ms) :
         /\ ms[i].status = "pending"
         /\ \A j \in 1..(i - 1) : ms[j].status # "pending"
  ELSE 0

\* ------------------------------------------------------------ processMission
\* the catch block: the message recorded for a thrown value
ErrorMessage(err) == IF err.isError THEN err.message ELSE "An unknown error occurred."
\* a catch block that records the message and leaves the status alone (C28
\* does not hold of it)
Catch_keepsStatus(id, err) == UpdateMission(id, [error |-> Some(ErrorMessage(err))])

\* a catch block that also reports the failure as progress (C25 does not
\* hold of it)
Catch_writesProgress(id, err) ==
  UpdateMission(id, [status |-> "failed", error |-> Some(ErrorMessage(err)),
                     progressMessage |-> Some("Failed.")])

Catch(id, err) == UpdateMission(id, [status |-> "failed", error |-> Some(ErrorMessage(err))])

\* a thrown value that is no Error, so that the catch block records the
\* generic message (C11 does not hold of it)
NoUrlError_notAnError == [isError |-> FALSE, message |-> ""]

NoUrlError == [isError |-> TRUE, message |-> "Video generation finished, but no URL was returned."]

\* generateImageFromPrompt: response.generatedImages.map(img => img.image.imageBytes)
generateImageFromPrompt(response) ==
  [i \in 1..Len(response) |-> response[i].image.imageBytes]

\* one invocation of processMission; images/submits/polled record the
\* remote calls it has issued
NewProc(m) ==
  [mission |-> m, operation |-> m.operation, msgIndex |-> 0, pc |-> "start",
   payload |-> Undefined, images |-> 0, submits |-> 0, polled |-> {}]

\* a loop that polls once and then goes on to the download whatever the
\* handle says (C10 does not hold of it)
WhileLoop_completesEarly(p) ==
  IF ~p.operation[1].done /\ p.msgIndex = 0
  THEN [proc |-> [p EXCEPT !.pc = "sleep", !.msgIndex = @ + 1],
        ups |-> <<UpdateMission(p.mission.id,
                    [progressMessage |-> Some(loadingMessages[(p.msgIndex % Len(loadingMessages)) + 1])])>>]
  ELSE [proc |-> [p EXCEPT !.pc = "awaitFetch"], ups |-> <<>>]

\* from `while (!operation.done)` up to the next await, or to the end
WhileLoop(p) ==
  IF ~p.operation[1].done
  THEN [proc |-> [p EXCEPT !.pc = "sleep", !.msgIndex = @ + 1],
        ups |-> <<UpdateMission(p.mission.id,
                    [progressMessage |-> Some(loadingMessages[(p.msgIndex % Len(loadingMessages)) + 1])])>>]
  ELSE IF p.operation[1].uri # Undefined
  THEN [proc |-> [p EXCEPT !.pc = "awaitFetch"], ups |-> <<>>]
  ELSE [proc |-> [p EXCEPT !.pc = "end"], ups |-> <<Catch(p.mission.id, NoUrlError)>>]

\* a processMission whose first update writes the message and not the status,
\* so that the mission is still pending at the next render (C29 does not
\* hold of it)
processMission_staysPending(m) ==
  LET starting == UpdateMission(m.id, [progressMessage |-> Some("Starting...")])
      p0 == NewProc(m)
  IN IF m.type = "image-gen"
     THEN [proc |-> [p0 EXCEPT !.pc = "awaitImages", !.images = 1],
           ups |-> <<starting, UpdateMission(m.id, [progressMessage |-> Some("Generating images...")])>>]
     ELSE IF p0.operation = Undefined
     THEN [proc |-> [p0 EXCEPT !.pc = "awaitSubmit", !.submits = 1],
           ups |-> <<starting, UpdateMission(m.id, [progressMessage |-> Some("Initializing video...")])>>]
     ELSE LET w == WhileLoop(p0) IN [proc |-> w.proc, ups |-> <<starting>> \o w.ups]

\* a processMission that submits whether or not the mission carries a handle
\* (C5 does not hold of it)
processMission_resubmit(m) ==
  LET starting == UpdateMission(m.id, [status |-> "in-progress", progressMessage |-> Some("Starting...")])
      p0 == NewProc(m)
  IN IF m.type = "image-gen"
     THEN [proc |-> [p0 EXCEPT !.pc = "awaitImages", !.images = 1],
           ups |-> <<starting, UpdateMission(m.id, [progressMessage |-> Some("Generating images...")])>>]
     ELSE [proc |-> [p0 EXCEPT !.pc = "awaitSubmit", !.submits = 1],
           ups |-> <<starting, UpdateMission(m.id, [progressMessage |-> Some("Initializing video...")])>>]

\* processMission from its call up to its first await
processMission(m) ==
  LET starting == UpdateMission(m.id, [status |-> "in-progress", progressMessage |-> Some("Starting...")])
      p0 == NewProc(m)
  IN IF m.type = "image-gen"
     THEN [proc |-> [p0 EXCEPT !.pc = "awaitImages", !.images = 1],
           ups |-> <<starting, UpdateMission(m.id, [progressMessage |-> Some("Generating images...")])>>]
     ELSE IF p0.operation = Undefined
     THEN [proc |-> [p0 EXCEPT !.pc = "awaitSubmit", !.submits = 1],
           ups |-> <<starting, UpdateMission(m.id, [progressMessage |-> Some("Initializing video...")])>>]
     ELSE LET w == WhileLoop(p0) IN [proc |-> w.proc, ups |-> <<starting>> \o w.ups]

\* a completion that leaves the result flag alone (C9 does not hold of it)
Completion_noResult(p) == UpdateMission(p.mission.id, [status |-> "completed"])

\* the update that marks a mission completed after saveResult resolved
Completion(p) ==
  IF p.mission.type = "image-gen"
  THEN UpdateMission(p.mission.id, [status |-> "completed", result |-> Some(TRUE)])
  ELSE UpdateMission(p.mission.id, [status |-> "completed", result |-> Some(TRUE), progressMessage |-> Some("Done!")])

\* a saveResult whose put never reaches the object store (C3 does not
\* hold of it)
saveResult_lost(id, result) == store

\* saveResult: put({ id, result }) in the object store
saveResult(id, result) == [store EXCEPT ![id] = Some(result)]

RemoveAt(s, i) == [j \in 1..(Len(s) - 1) |-> IF j < i THEN s[j] ELSE s[j + 1]]

\* invocation i goes on as r.proc and has queued r.ups
Continue(i, r) ==
  /\ procs' = IF r.proc.pc = "end" THEN RemoveAt(procs, i) ELSE [procs EXCEPT ![i] = r.proc]
  /\ updates' = updates \o r.ups

\* the scheduler effect on the committed list ms
SchedulerEffect(ms) ==
  LET k == FindPending(ms)
  IN IF k = 0 THEN [procs |-> <<>>, ups |-> <<>>]
     ELSE LET r == processMission(ms[k])
          IN [procs |-> IF r.proc.pc = "end" THEN <<>> ELSE <<r.proc>>, ups |-> r.ups]

\* ------------------------------------------------------------ Init
Init ==
  /\ missions = <<>>
  /\ updates = <<>>
  /\ procs = <<>>
  /\ storage = Undefined
  /\ store = [id \in Ids |-> Undefined]
  /\ now = 0
  /\ elapsed = TRUE
  /\ enqueued = 0
  /\ phase = "unmounted"
  /\ preview = PreviewClosed

\* ------------------------------------------------------------ UI actions
\* handleStartMission: Date.now() is read for the id and for createdAt. Only
\* the order of the values read matters, so the clock counts the distinct
\* milliseconds read: it has moved on when a network round trip, a timer or a
\* page load lies between two reads, and may or may not have otherwise; both
\* reads of one call fall in the same millisecond
handleStartMission(type, prompt) ==
  /\ phase = "mounted"
  /\ enqueued < MaxMissions
  /\ Len(updates) < MaxQueue
  /\ enqueued' = enqueued + 1
  /\ \E t \in (IF elapsed THEN {now + 1} ELSE {now, now + 1}) :
       /\ now' = t
       /\ elapsed' = FALSE
       /\ updates' = Append(updates, AppendMission(
            [id |-> t, type |-> type, prompt |-> prompt, status |-> "pending",
             progressMessage |-> Undefined, result |-> Undefined, error |-> Undefined,
             createdAt |-> t, operation |-> Undefined]))
  /\ UNCHANGED <<missions, procs, storage, store, phase, preview>>

StartMission == \E type \in MissionTypes : \E prompt \in Prompts : handleStartMission(type, prompt)

\* a regeneration that puts the original back in the queue instead of
\* enqueuing a copy (C21 does not hold of it)
handleRegenerateMission_requeues ==
  /\ phase = "mounted"
  /\ Len(updates) < MaxQueue
  /\ \E i \in 1..Len(missions) :
       updates' = Append(updates, UpdateMission(missions[i].id, [status |-> "pending"]))
  /\ UNCHANGED <<missions, procs, storage, store, now, elapsed, enqueued, phase, preview>>

handleRegenerateMission ==
  \E i \in 1..Len(missions) : handleStartMission(missions[i].type, missions[i].prompt)

handleClearCompleted ==
  /\ phase = "mounted"
  /\ \E i \in 1..Len(missions) : IsTerminal(missions[i])
  /\ \A k \in 1..Len(updates) : updates[k].kind # "clear"
  /\ Len(updates) < MaxQueue
  /\ updates' = Append(updates, ClearCompleted)
  /\ UNCHANGED <<missions, procs, storage, store, now, elapsed, enqueued, phase, preview>>

\* ------------------------------------------------------------ React
\* first render of a page load: the three effects run on missions = []. When
\* the loaded value is no array, loadedMissions.filter throws in the load
\* effect and React takes the app down; whether the save effect still ran is
\* left open
Mount ==
  /\ phase = "unmounted"
  /\ LET loadedMissions == getMissionsFromStorage
     IN IF loadedMissions.isArray
        THEN /\ \E setItemOk \in SetItemOutcomes :
                  storage' = saveMissionsToStorage(missions, setItemOk)
             /\ updates' = <<SetMissions(Reconcile(loadedMissions.items))>>
             /\ phase' = "mounted"
        ELSE /\ \E saved \in BOOLEAN : storage' = saveMissionsToStorage(missions, saved)
             /\ updates' = <<>>
             /\ phase' = "crashed"
  /\ UNCHANGED <<missions, procs, store, now, enqueued, preview>>
  /\ elapsed' = TRUE

\* a re-render: queued updaters applied in order, then save and scheduler effects
Render ==
  /\ phase = "mounted"
  /\ updates # <<>>
  /\ LET next == ApplyAll(updates, missions)
         sched == SchedulerEffect(next)
     IN /\ missions' = next
        /\ \E setItemOk \in SetItemOutcomes : storage' = saveMissionsToStorage(next, setItemOk)
        /\ procs' = procs \o sched.procs
        /\ updates' = sched.ups
  /\ UNCHANGED <<store, now, elapsed, enqueued, phase, preview>>

\* the page is reloaded or closed and reopened: everything in memory is lost
Reload ==
  /\ phase \in {"mounted", "crashed"}
  /\ missions' = <<>>
  /\ updates' = <<>>
  /\ procs' = <<>>
  /\ phase' = "unmounted"
  /\ UNCHANGED <<storage, store, now, elapsed, enqueued, preview>>

\* ------------------------------------------------------------ awaits resolving
\* invocation i is parked at the await `at`; the render React scheduled for
\* the queued updates has run before an await resolves
Awaiting(i, at) ==
  /\ updates = <<>>
  /\ procs[i].pc = at

ImagesResolve(i) ==
  /\ Awaiting(i, "awaitImages")
  /\ \E response \in ImageResponses :
       Continue(i, [proc |-> [procs[i] EXCEPT !.pc = "awaitSave",
                                              !.payload = Some(generateImageFromPrompt(response))],
                    ups |-> <<>>])
  /\ UNCHANGED <<missions, storage, store, now, enqueued, phase, preview>>
  /\ elapsed' = TRUE

SubmitResolve(i) ==
  /\ Awaiting(i, "awaitSubmit")
  /\ \E name \in OperationNames :
       /\ LET operation == [name |-> name, done |-> FALSE, uri |-> Undefined]
              w == WhileLoop([procs[i] EXCEPT !.operation = Some(operation)])
          IN Continue(i, [proc |-> w.proc,
                          ups |-> <<UpdateMission(procs[i].mission.id, [operation |-> Some(operation)])>> \o w.ups])
  /\ UNCHANGED <<missions, storage, store, now, enqueued, phase, preview>>
  /\ elapsed' = TRUE

\* the 10 s timer ends and checkVideoOperationStatus(operation) is called
TimerFire(i) ==
  /\ Awaiting(i, "sleep")
  /\ procs' = [procs EXCEPT ![i].pc = "awaitPoll", ![i].polled = @ \cup {procs[i].operation[1].name}]
  /\ UNCHANGED <<missions, updates, storage, store, now, enqueued, phase, preview>>
  /\ elapsed' = TRUE

\* getVideosOperation answers with the same operation, its done/response updated
PollResolve(i) ==
  /\ Awaiting(i, "awaitPoll")
  /\ \E done \in BOOLEAN : \E uri \in {Undefined, Some("https://x/video")} :
       /\ (uri # Undefined => done)
       /\ (~done => procs[i].msgIndex <= MaxPolls)
       /\ LET operation == [name |-> procs[i].operation[1].name, done |-> done, uri |-> uri]
          IN Continue(i, WhileLoop([procs[i] EXCEPT !.operation = Some(operation)]))
  /\ UNCHANGED <<missions, storage, store, now, enqueued, phase, preview>>
  /\ elapsed' = TRUE

\* fetch(downloadLink) and response.blob(): a non-2xx response is not an error
FetchResolve(i) ==
  /\ Awaiting(i, "awaitFetch")
  /\ \E body \in FetchBodies :
       Continue(i, [proc |-> [procs[i] EXCEPT !.pc = "awaitSave", !.payload = Some(body.blob)],
                    ups |-> <<>>])
  /\ UNCHANGED <<missions, storage, store, now, enqueued, phase, preview>>
  /\ elapsed' = TRUE

\* the transaction of saveResult completes and the mission is marked completed
SaveResultResolve(i) ==
  /\ Awaiting(i, "awaitSave")
  /\ store' = saveResult(procs[i].mission.id, procs[i].payload[1])
  /\ Continue(i, [proc |-> [procs[i] EXCEPT !.pc = "end"], ups |-> <<Completion(procs[i])>>])
  /\ UNCHANGED <<missions, storage, now, elapsed, enqueued, phase, preview>>

\* the transaction of saveResult aborts with no error event (a commit that
\* fails, as on exceeded quota): nothing is written, and saveResult listens
\* for complete and error only, so its promise never settles
SaveResultAborts(i) ==
  /\ Awaiting(i, "awaitSave")
  /\ procs' = [procs EXCEPT ![i].pc = "never"]
  /\ UNCHANGED <<missions, updates, storage, store, now, elapsed, enqueued, phase, preview>>

\* an await of the try block rejects: remote call, fetch, openDB or the transaction
Reject(i) ==
  /\ \E at \in {"awaitImages", "awaitSubmit", "awaitPoll", "awaitFetch", "awaitSave"} : Awaiting(i, at)
  /\ \E err \in (IF procs[i].pc = "awaitSave" THEN StoreThrown ELSE RemoteThrown) :
       Continue(i, [proc |-> [procs[i] EXCEPT !.pc = "end"],
                    ups |-> <<Catch(procs[i].mission.id, err)>>])
  /\ UNCHANGED <<missions, storage, store, now, elapsed, enqueued, phase, preview>>

Next ==
  \/ StartMission
  \/ handleRegenerateMission
  \/ handleClearCompleted
  \/ Mount
  \/ Render
  \/ Reload
  \/ \E i \in 1..Len(procs) : ImagesResolve(i)
  \/ \E i \in 1..Len(procs) : SubmitResolve(i)
  \/ \E i \in 1..Len(procs) : TimerFire(i)
  \/ \E i \in 1..Len(procs) : PollResolve(i)
  \/ \E i \in 1..Len(procs) : FetchResolve(i)
  \/ \E i \in 1..Len(procs) : SaveResultResolve(i)
  \/ \E i \in 1..Len(procs) : SaveResultAborts(i)
  \/ \E i \in 1..Len(procs) : Reject(i)

Spec == Init /\ [][Next]_vars

\* the scheduler keeps going: a render that is due happens
LiveSpec == Spec /\ WF_vars(Render)

\* ------------------------------------------------------------ properties
HasPending == \E i \in 1..Len(missions) : missions[i].status = "pending"
\* the step keeps every mission at its list position: the page stays open
\* and no queued updater replaces or filters the list
KeepsPositions ==
  /\ phase' = "mounted"
  /\ \A k \in 1..Len(updates) : updates[k].kind \in {"update", "append"}

\* C1: in every reachable ledger state at most one mission is in-progress
\* (missions counted by id, so two list entries are two missions only when
\* their ids differ).
C1_AtMostOneInProgress ==
  Cardinality({missions[i].id : i \in {k \in 1..Len(missions) : missions[k].status = "in-progress"}}) <= 1

\* C2: in memory and as persisted, a mission is failed exactly when its
\* error field is present.
C2_FailedIffError ==
  /\ \A i \in 1..Len(missions) :
       (missions[i].status = "failed") <=> (missions[i].error # Undefined)
  /\ \A i \in 1..Len(getMissionsFromStorage.items) :
       (getMissionsFromStorage.items[i].status = "failed") <=> (getMissionsFromStorage.items[i].error # Undefined)

\* C3: a mission whose result flag is true, in memory or as persisted, has a
\* Result Store entry under its id.
C3_ResultImpliesStored ==
  /\ \A i \in 1..Len(missions) :
       missions[i].result = Some(TRUE) => store[missions[i].id] # Undefined
  /\ \A i \in 1..Len(getMissionsFromStorage.items) :
       getMissionsFromStorage.items[i].result = Some(TRUE) => store[getMissionsFromStorage.items[i].id] # Undefined

C3_Witness ==
  \E i \in 1..Len(missions) : \E j \in 1..Len(missions) :
    /\ missions[i].id # missions[j].id
    /\ missions[i].type = "image-gen" /\ missions[i].result = Some(TRUE)
    /\ store[missions[i].id] = Some(<<"png1", "png2">>)
    /\ missions[j].type = "video-gen" /\ missions[j].result = Some(TRUE)
    /\ store[missions[j].id] = Some(<<"mp4">>)

\* C4: the list a page load puts in memory holds every persisted mission:
\* those persisted pending or in-progress with status pending and otherwise
\* as persisted, those persisted completed or failed unchanged in every field.
C4_ReloadReconciles ==
  [][Mount =>
       LET persisted == getMissionsFromStorage.items
           loaded == ApplyAll(updates', missions')
           requeue(m) == [m EXCEPT !.status = "pending"]
           unfinished == SelectSeq(persisted, IsUnfinished)
       IN /\ Len(loaded) = Len(persisted)
          /\ SelectSeq(loaded, IsTerminal) = SelectSeq(persisted, IsTerminal)
          /\ SelectSeq(loaded, IsUnfinished) = [k \in 1..Len(unfinished) |-> requeue(unfinished[k])]
          /\ \A k \in 1..Len(loaded) : IsUnfinished(loaded[k]) => loaded[k].status = "pending"
    ]_vars

C4_Witness ==
  /\ phase = "mounted"
  /\ \E i \in 1..Len(missions) :
       missions[i].status = "pending" /\ missions[i].progressMessage # Undefined
  /\ \E i \in 1..Len(missions) : IsTerminal(missions[i])

\* C5: a run of processMission for a video mission that carried an operation
\* handle when it was started issues no submit and polls only with that
\* operation; and when submit returns, the handle is queued for the ledger
\* before any poll of that run.
C5_ResumeWithoutResubmit ==
  /\ [](\A i \in 1..Len(procs) :
          (procs[i].mission.type = "video-gen" /\ procs[i].mission.operation # Undefined)
            => /\ procs[i].submits = 0
               /\ procs[i].polled \subseteq {procs[i].mission.operation[1].name})
  /\ [][\A i \in 1..Len(procs) :
          SubmitResolve(i) =>
            /\ procs[i].polled = {}
            /\ \E k \in 1..Len(updates') :
                 /\ updates'[k].kind = "update"
                 /\ updates'[k].id = procs[i].mission.id
                 /\ "operation" \in DOMAIN updates'[k].arg
                 /\ updates'[k].arg.operation # Undefined
     ]_vars

C5_Witness ==
  \E i \in 1..Len(procs) :
    /\ procs[i].mission.operation # Undefined
    /\ procs[i].polled # {}
    /\ procs[i].submits = 0

\* C6: of two pending missions the one earlier in the list goes in-progress
\* strictly before the later one: no step takes the later one out of pending
\* while the earlier one is still pending before the step.
C6_OldestPendingFirst ==
  [][KeepsPositions =>
       \A i \in 1..Len(missions) : \A j \in 1..Len(missions) :
         (i < j /\ missions[i].status = "pending" /\ missions[j].status = "pending")
           => missions'[j].status = "pending"
    ]_vars

\* C7: within a session a mission's status changes only pending ->
\* in-progress, in-progress -> completed and in-progress -> failed, and a
\* mission leaves the list only by compaction.
C7_StatusTransitions ==
  [][/\ KeepsPositions =>
          \A i \in 1..Len(missions) :
            \/ missions'[i].status = missions[i].status
            \/ missions[i].status = "pending" /\ missions'[i].status = "in-progress"
            \/ missions[i].status = "in-progress" /\ missions'[i].status \in {"completed", "failed"}
     /\ (phase' = "mounted" /\ Len(missions') < Len(missions))
          => \E k \in 1..Len(updates) : updates[k].kind = "clear"
    ]_vars

\* C8: a rejected await ends that run of processMission with the update that
\* marks the mission failed with the message, and nothing else; every render
\* that commits a list with a pending mission calls processMission for the
\* first of them, whatever failed before; whenever no render is due no
\* mission is pending, and a pending mission does not stay pending.
C8_FailureDoesNotStopScheduler ==
  /\ [][\A i \in 1..Len(procs) :
          Reject(i) =>
            /\ Len(procs') = Len(procs) - 1
            /\ \E err \in RemoteThrown \cup StoreThrown :
                 updates' = <<UpdateMission(procs[i].mission.id,
                               [status |-> "failed", error |-> Some(ErrorMessage(err))])>>
     ]_vars
  /\ [][(Render /\ FindPending(missions') # 0) =>
          /\ updates' # <<>>
          /\ updates'[1] = UpdateMission(missions'[FindPending(missions')].id,
                             [status |-> "in-progress", progressMessage |-> Some("Starting...")])
     ]_vars
  /\ [](updates = <<>> => ~HasPending)
  /\ (HasPending ~> ~HasPending)

C8_Witness ==
  \E i \in 1..Len(missions) : \E j \in 1..Len(missions) :
    /\ i < j
    /\ missions[i].id # missions[j].id
    /\ missions[i].status = "failed" /\ missions[i].error = Some("Failed to fetch")
    /\ missions[j].status = "in-progress"

C10_VideoPollsUntilDone ==
  /\ [](\A i \in 1..Len(procs) :
          procs[i].mission.type = "video-gen" =>
            /\ (procs[i].pc \in {"awaitFetch", "awaitSave"}
                  => procs[i].operation[1].done /\ procs[i].operation[1].uri # Undefined)
            /\ ((procs[i].operation # Undefined /\ ~procs[i].operation[1].done)
                  => procs[i].pc \in {"sleep", "awaitPoll"}))
  /\ [][\A i \in 1..Len(procs) :
          /\ SubmitResolve(i) => (Len(procs') = Len(procs) /\ procs'[i].pc = "sleep")
          /\ (procs[i].mission.type = "video-gen" /\ SaveResultResolve(i))
               => /\ procs[i].operation[1].done
                  /\ store'[procs[i].mission.id] = procs[i].payload
                  /\ updates' = <<UpdateMission(procs[i].mission.id,
                        [status |-> "completed", result |-> Some(TRUE), progressMessage |-> Some("Done!")])>>
     ]_vars

C10_Witness ==
  \E i \in 1..Len(procs) :
    /\ procs[i].mission.type = "video-gen"
    /\ procs[i].pc = "awaitSave"
    /\ procs[i].msgIndex = 2
    /\ procs[i].payload = Some(<<"mp4">>)

\* C11: when a poll of a video mission's run answers done without a result
\* URI, the run ends there: it queues exactly the update that marks the
\* mission failed with the message that no URL was returned, which does not
\* touch the result flag, and it writes nothing to the Result Store.
C11_DoneWithoutUriFails ==
  [][\A i \in 1..Len(procs) :
       (PollResolve(i) /\ Len(procs') < Len(procs))
         => /\ updates' = <<UpdateMission(procs[i].mission.id,
                             [status |-> "failed",
                              error |-> Some("Video generation finished, but no URL was returned.")])>>
            /\ "result" \notin DOMAIN updates'[1].arg
            /\ store' = store
            /\ \A k \in 1..Len(missions) :
                 missions[k].id = procs[i].mission.id
                   => /\ ApplyAll(updates', missions)[k].status = "failed"
                      /\ ApplyAll(updates', missions)[k].result = missions[k].result
    ]_vars

C11_Witness ==
  \E i \in 1..Len(missions) :
    /\ missions[i].type = "video-gen"
    /\ missions[i].status = "failed"
    /\ missions[i].error = Some("Video generation finished, but no URL was returned.")
    /\ missions[i].result = Undefined
    /\ store[missions[i].id] = Undefined

\* C12: once a run of processMission has polled, and the renders it asked
\* for have happened, the operation handle the ledger holds for its mission
\* is the latest handle a poll of that run returned.
C12_LedgerHoldsLatestHandle ==
  \A i \in 1..Len(procs) :
    (procs[i].mission.type = "video-gen" /\ procs[i].polled # {} /\ updates = <<>>)
      => \A k \in 1..Len(missions) :
           missions[k].id = procs[i].mission.id => missions[k].operation = procs[i].operation

MaxLedger == 3    \* longest list handed to saveMissionsToStorage

\* a mission in each status, with none or with all of its optional fields
LedgerMissions ==
  { [id |-> id, type |-> "video-gen", prompt |-> "a cat", status |-> status,
     progressMessage |-> IF full THEN Some("Starting...") ELSE Undefined,
     result |-> IF full THEN Some(TRUE) ELSE Undefined,
     error |-> IF full THEN Some("Failed to fetch") ELSE Undefined,
     createdAt |-> id,
     operation |-> IF full THEN Some([name |-> "operations/a", done |-> FALSE, uri |-> Undefined])
                   ELSE Undefined] :
    id \in Ids, status \in {"pending", "in-progress", "completed", "failed"}, full \in BOOLEAN }

LedgerLists == UNION { [1..n -> LedgerMissions] : n \in 0..MaxLedger }

LedgerInit ==
  /\ missions \in LedgerLists
  /\ updates = <<>>
  /\ procs = <<>>
  /\ storage = Undefined
  /\ store = [id \in Ids |-> Undefined]
  /\ now = 0
  /\ elapsed = TRUE
  /\ enqueued = 0
  /\ phase = "unmounted"
  /\ preview = PreviewClosed

\* saveMissionsToStorage(missions), setItem returning
SaveLedger ==
  /\ storage' = saveMissionsToStorage(missions, TRUE)
  /\ UNCHANGED <<missions, updates, procs, store, now, elapsed, enqueued, phase, preview>>

\* saveMissionsToStorage(missions), setItem throwing: the catch logs and returns
SaveLedgerFails ==
  /\ storage' = saveMissionsToStorage(missions, FALSE)
  /\ UNCHANGED <<missions, updates, procs, store, now, elapsed, enqueued, phase, preview>>

\* missions = getMissionsFromStorage()
LoadLedger ==
  /\ missions' = getMissionsFromStorage.items
  /\ UNCHANGED <<updates, procs, storage, store, now, elapsed, enqueued, phase, preview>>

LedgerNext == SaveLedger \/ SaveLedgerFails \/ LoadLedger

LedgerSpec == LedgerInit /\ [][LedgerNext]_vars

\* C14: the list loaded after a save that succeeded has the length of the
\* list saved and at each position a mission with the same id and the same
\* status.
C14_SaveLoadRoundTrip ==
  [][SaveLedger =>
       LET loaded == getMissionsFromStorage'.items
       IN /\ Len(loaded) = Len(missions)
          /\ \A k \in 1..Len(missions) :
               loaded[k].id = missions[k].id /\ loaded[k].status = missions[k].status
    ]_vars

C14_Witness ==
  /\ Len(missions) = 2
  /\ missions[1].status = "failed" /\ missions[1].error # Undefined
  /\ missions[2].status = "in-progress" /\ missions[2].error = Undefined
  /\ missions[1].id # missions[2].id
  /\ storage # Undefined
  /\ getMissionsFromStorage.items = missions

\* ------------------------------------------------------------ startup alone
\* a page load on whatever the key holds: nothing, a saved list, or text the
\* app did not write
StoredValues ==
  {Undefined} \cup {Some(text) : text \in ForeignTexts}
              \cup {Some([syntax |-> "array", items |-> JSONstringify(ms)]) : ms \in LedgerLists}

LoadInit ==
  /\ missions = <<>>
  /\ updates = <<>>
  /\ procs = <<>>
  /\ storage \in StoredValues
  /\ store = [id \in Ids |-> Undefined]
  /\ now = 0
  /\ elapsed = TRUE
  /\ enqueued = 0
  /\ phase = "unmounted"
  /\ preview = PreviewClosed

LoadNext == Mount \/ Reload

LoadSpec == LoadInit /\ [][LoadNext]_vars

\* C15: whatever the key holds, getMissionsFromStorage returns a sequence,
\* the empty one when the key is missing or holds no JSON array, and the
\* load effect goes through: the app is never taken down at startup.
C15_LoadFailsSoft ==
  [][Mount =>
       /\ getMissionsFromStorage.isArray
       /\ phase' = "mounted"
       /\ (storage = Undefined \/ storage[1].syntax # "array")
            => (getMissionsFromStorage.items = <<>> /\ updates' = <<SetMissions(<<>>)>>)
    ]_vars

\* ------------------------------------------------------------ the Result Store read
\* what a read can meet: the database opens and the get request succeeds,
\* the get request fails, or indexedDB.open fails
StoreConditions == {"ok", "readError", "openError"}

\* payloads an entry of the object store can hold
StoredPayloads == { <<>>, <<"png1", "png2">>, <<"mp4">> }

\* getResult: how its promise settles. openDB rejects when the open request
\* fails and getResult awaits it outside any try; a failed get request
\* resolves undefined; otherwise request.result?.result
getResult(id, condition) ==
  IF condition = "openError" THEN [rejected |-> TRUE, value |-> Undefined]
  ELSE IF condition = "readError" THEN [rejected |-> FALSE, value |-> Undefined]
  ELSE [rejected |-> FALSE, value |-> store[id]]

StoreInit ==
  /\ missions = <<>>
  /\ updates = <<>>
  /\ procs = <<>>
  /\ storage = Undefined
  /\ store \in [Ids -> {Undefined} \cup {Some(payload) : payload \in StoredPayloads}]
  /\ now = 0
  /\ elapsed = TRUE
  /\ enqueued = 0
  /\ phase = "mounted"
  /\ preview = PreviewClosed

\* PreviewModal's effect: setIsLoading(true) and the call of getResult(mission.id)
OpenPreview(id) ==
  /\ preview = PreviewClosed
  /\ preview' = [id |-> id, isLoading |-> TRUE, storedResult |-> Undefined, rejected |-> FALSE]
  /\ UNCHANGED <<missions, updates, procs, storage, store, now, elapsed, enqueued, phase>>

\* the promise of getResult settles: fetchAndSetResult goes on after its
\* await, or ends with the rejection, which nothing handles
GetResultSettles ==
  /\ preview.isLoading /\ ~preview.rejected
  /\ \E condition \in StoreConditions :
       LET r == getResult(preview.id, condition)
       IN preview' = IF r.rejected
                     THEN [preview EXCEPT !.rejected = TRUE]
                     ELSE [preview EXCEPT !.isLoading = FALSE, !.storedResult = r.value]
  /\ UNCHANGED <<missions, updates, procs, storage, store, now, elapsed, enqueued, phase>>

ClosePreview ==
  /\ preview # PreviewClosed
  /\ preview' = PreviewClosed
  /\ UNCHANGED <<missions, updates, procs, storage, store, now, elapsed, enqueued, phase>>

StoreNext ==
  \/ \E id \in Ids : OpenPreview(id)
  \/ GetResultSettles
  \/ ClosePreview

StoreSpec == StoreInit /\ [][StoreNext]_vars

\* C16: getResult never rejects: whatever the id and whatever the read
\* meets, its caller gets the stored payload or undefined.
C16_GetResultNeverRejects ==
  /\ ~preview.rejected
  /\ (preview.id # 0 /\ ~preview.isLoading) => preview.storedResult \in {Undefined, store[preview.id]}

\* C17: when the Result Store write of a run fails, the run ends there: it
\* queues exactly the update that marks its mission failed with a message,
\* which does not touch the result flag, and the store is left as it was.
C17_StoreFailureFailsMission ==
  [][\A i \in 1..Len(procs) :
       (procs[i].pc = "awaitSave" /\ (Reject(i) \/ SaveResultAborts(i)))
         => /\ Len(procs') = Len(procs) - 1
            /\ \E err \in StoreThrown :
                 updates' = <<UpdateMission(procs[i].mission.id,
                               [status |-> "failed", error |-> Some(ErrorMessage(err))])>>
            /\ store' = store
    ]_vars

\* C18: the body of a response that is not 2xx is never stored and marked
\* as the result of a mission: no video mission whose result flag is set has
\* one as its Result Store entry.
C18_ErrorBodyNeverStored ==
  LET ErrorBodies == {Some(body.blob) : body \in {b \in FetchBodies : ~b.ok}}
  IN \A k \in 1..Len(missions) :
       (missions[k].type = "video-gen" /\ missions[k].result = Some(TRUE))
         => store[missions[k].id] \notin ErrorBodies

\* C19: an image mission is never marked completed with an empty or missing
\* result sequence: the Result Store entry of an image mission whose result
\* flag is set is a sequence of at least one image.
C19_NoEmptyImageResult ==
  \A k \in 1..Len(missions) :
    (missions[k].type = "image-gen" /\ missions[k].result = Some(TRUE))
      => (store[missions[k].id] # Undefined /\ store[missions[k].id] # Some(<<>>))

\* C20: no two missions in the ledger share an id.
C20_IdsUnique ==
  \A i \in 1..Len(missions) : \A j \in 1..Len(missions) :
    i # j => missions[i].id # missions[j].id

\* C21: a regeneration queues exactly one append: the list the next render
\* commits is the list it would have committed without the regeneration, every
\* mission of it unchanged at its position, followed by one new pending
\* mission that has the type and the prompt of a mission shown in the ledger
\* and none of the optional fields; the committed list itself is untouched.
C21_RegenerateAppendsCopy ==
  [][handleRegenerateMission =>
       LET before == ApplyAll(updates, missions)
           after == ApplyAll(updates', missions')
           copy == after[Len(after)]
       IN /\ missions' = missions
          /\ Len(updates') = Len(updates) + 1
          /\ Len(after) = Len(before) + 1
          /\ SubSeq(after, 1, Len(before)) = before
          /\ copy.status = "pending"
          /\ \A k \in OptionalKeys : copy[k] = Undefined
          /\ \E i \in 1..Len(missions) :
               copy.type = missions[i].type /\ copy.prompt = missions[i].prompt
    ]_vars

\* a copy of a failed mission with the other prompt is queued behind it
C21_Witness ==
  /\ Len(missions) = 1
  /\ missions[1].status = "failed"
  /\ missions[1].prompt = "a dog"
  /\ updates # <<>>
  /\ updates[Len(updates)].kind = "append"
  /\ updates[Len(updates)].arg.prompt = "a dog"
  /\ updates[Len(updates)].arg.type = missions[1].type
  /\ updates[Len(updates)].arg.id # missions[1].id

C23_CompactionRemovesResults ==
  [][(Render /\ \E n \in 1..Len(updates) : updates[n].kind = "clear") =>
       \A i \in 1..Len(missions) :
         (\A j \in 1..Len(missions') : missions'[j].id # missions[i].id)
           => store'[missions[i].id] = Undefined
    ]_vars

\* the fields of a mission that are set when it is created
Identity(m) == <<m.id, m.type, m.prompt, m.createdAt>>
Identities(ms) == [i \in 1..Len(ms) |-> Identity(ms[i])]

\* C24: id, type, prompt and createdAt of a mission never change. A render
\* that keeps the list positions leaves the four fields of every mission as
\* they were; every mission a render commits has the four fields of a
\* mission of the list before or of a mission queued for it; the list a page
\* load builds has, among the completed and failed and among the requeued
\* missions, the four fields of the persisted ones in the same order; the
\* persisted list has the four fields of the committed one; and no
\* update-by-id names one of the four.
C24_IdentityFieldsImmutable ==
  /\ [][(Render /\ KeepsPositions) =>
          SubSeq(Identities(missions'), 1, Len(missions)) = Identities(missions)
     ]_vars
  /\ [][Render =>
          \A j \in 1..Len(missions') :
            \/ \E i \in 1..Len(missions) : Identity(missions'[j]) = Identity(missions[i])
            \/ \E n \in 1..Len(updates) :
                 \/ updates[n].kind = "append" /\ Identity(missions'[j]) = Identity(updates[n].arg)
                 \/ updates[n].kind = "set"
                      /\ \E i \in 1..Len(updates[n].arg) : Identity(missions'[j]) = Identity(updates[n].arg[i])
     ]_vars
  /\ [][Mount =>
          LET persisted == getMissionsFromStorage.items
              loaded == ApplyAll(updates', missions')
          IN /\ Identities(SelectSeq(loaded, IsTerminal)) = Identities(SelectSeq(persisted, IsTerminal))
             /\ Identities(SelectSeq(loaded, IsUnfinished)) = Identities(SelectSeq(persisted, IsUnfinished))
     ]_vars
  /\ []((phase = "mounted" /\ updates = <<>>) =>
          Identities(getMissionsFromStorage.items) = Identities(missions))
  /\ [](\A n \in 1..Len(updates) :
          updates[n].kind = "update" =>
            DOMAIN updates[n].arg \cap {"id", "type", "prompt", "createdAt"} = {})

\* a video mission that was started, got its handle, saw the other mission
\* leave the ledger and was requeued by a page load
C24_Witness ==
  /\ phase = "mounted"
  /\ enqueued = 2
  /\ Len(missions) = 1
  /\ missions[1].type = "video-gen"
  /\ missions[1].prompt = "a dog"
  /\ missions[1].status = "pending"
  /\ missions[1].operation # Undefined
  /\ missions[1].id = 1 /\ missions[1].createdAt = 1
  /\ store[2] # Undefined

C26_ReconcilePermutesStably ==
  [][Mount =>
       LET persisted == getMissionsFromStorage.items
           loaded == ApplyAll(updates', missions')
           Places == 1..Len(persisted)
           SameGroup(a, b) == IsUnfinished(persisted[a]) <=> IsUnfinished(persisted[b])
       IN /\ Len(loaded) = Len(persisted)
          /\ \E place \in [Places -> Places] :
               /\ \A a \in Places : \A b \in Places : a # b => place[a] # place[b]
               /\ \A a \in Places :
                    loaded[place[a]] = IF IsUnfinished(persisted[a])
                                       THEN [persisted[a] EXCEPT !.status = "pending"]
                                       ELSE persisted[a]
               /\ \A a \in Places : \A b \in Places :
                    (a < b /\ SameGroup(a, b)) => place[a] < place[b]
          /\ Reconcile(loaded) = loaded
    ]_vars

\* a failed mission in front of two requeued ones with different ids
C26_Witness ==
  /\ phase = "mounted"
  /\ Len(updates) = 1
  /\ updates[1].kind = "set"
  /\ Len(updates[1].arg) = 3
  /\ updates[1].arg[1].status = "failed"
  /\ updates[1].arg[2].status = "pending" /\ updates[1].arg[2].id = 2
  /\ updates[1].arg[3].status = "pending" /\ updates[1].arg[3].id = 1

\* C27: a compaction removes exactly the completed and failed missions: the
\* list after it is the list before it without them, the pending and
\* in-progress missions unchanged and in their order; and a render that
\* commits a compaction leaves in the ledger the mission of every run of
\* processMission that is still going, so that the update that ends the run
\* finds it.
C27_CompactionKeepsUnfinished ==
  /\ [](\A n \in 1..Len(updates) :
          LET before == ApplyAll(SubSeq(updates, 1, n - 1), missions)
              after == ApplyUpdate(updates[n], before)
              Removed == {i \in 1..Len(before) : before[i].status \in {"completed", "failed"}}
          IN updates[n].kind = "clear" =>
               /\ Len(after) = Len(before) - Cardinality(Removed)
               /\ \A j \in 1..Len(after) : after[j].status \in {"pending", "in-progress"}
               /\ after = SelectSeq(before, IsUnfinished))
  /\ [][(Render /\ \E n \in 1..Len(updates) : updates[n].kind = "clear") =>
          \A p \in 1..Len(procs) :
            \E j \in 1..Len(missions') : missions'[j].id = procs[p].mission.id
     ]_vars

\* ------------------------------------------------------------ one session
\* a session without reload in which every remote call, timer and store
\* write comes back: the page is opened on an empty key or on a ledger that
\* an earlier session persisted while a video mission was being polled, it is
\* not reloaded, and no transaction of saveResult is left unsettled
ResumedMission ==
  [id |-> 1, type |-> "video-gen", prompt |-> "a cat", status |-> "in-progress",
   progressMessage |-> Some(loadingMessages[1]), result |-> Undefined, error |-> Undefined,
   createdAt |-> 1,
   operation |-> Some([name |-> "operations/a", done |-> FALSE, uri |-> Undefined])]

SessionInit ==
  /\ missions = <<>>
  /\ updates = <<>>
  /\ procs = <<>>
  /\ store = [id \in Ids |-> Undefined]
  /\ elapsed = TRUE
  /\ phase = "unmounted"
  /\ preview = PreviewClosed
  /\ \/ storage = Undefined /\ now = 0 /\ enqueued = 0
     \/ /\ storage = Some([syntax |-> "array", items |-> JSONstringify(<<ResumedMission>>)])
        /\ now = 1
        /\ enqueued = 1

\* an await of invocation i settles, or its timer fires
Settles(i) ==
  \/ ImagesResolve(i)
  \/ SubmitResolve(i)
  \/ TimerFire(i)
  \/ PollResolve(i)
  \/ FetchResolve(i)
  \/ SaveResultResolve(i)
  \/ Reject(i)

SessionNext ==
  \/ StartMission
  \/ handleRegenerateMission
  \/ handleClearCompleted
  \/ Mount
  \/ Render
  \/ \E i \in 1..Len(procs) : ImagesResolve(i)
  \/ \E i \in 1..Len(procs) : SubmitResolve(i)
  \/ \E i \in 1..Len(procs) : TimerFire(i)
  \/ \E i \in 1..Len(procs) : PollResolve(i)
  \/ \E i \in 1..Len(procs) : FetchResolve(i)
  \/ \E i \in 1..Len(procs) : SaveResultResolve(i)
  \/ \E i \in 1..Len(procs) : Reject(i)

SessionSpec ==
  /\ SessionInit
  /\ [][SessionNext]_vars
  /\ WF_vars(Mount)
  /\ WF_vars(Render)
  /\ \A i \in 1..(MaxMissions + 1) : WF_vars(i \in 1..Len(procs) /\ Settles(i))

\* a mission with this id is queued for the ledger or is in it, pending or
\* in-progress
Unfinished(id) ==
  \/ \E n \in 1..Len(updates) :
       \/ updates[n].kind = "append" /\ updates[n].arg.id = id
       \/ updates[n].kind = "set"
            /\ \E i \in 1..Len(updates[n].arg) : updates[n].arg[i].id = id /\ IsUnfinished(updates[n].arg[i])
  \/ \E i \in 1..Len(missions) : missions[i].id = id /\ IsUnfinished(missions[i])

\* C28: in such a session every mission that is enqueued, or requeued by the
\* page load, ends: from any state in which a mission with some id is queued,
\* pending or in-progress, a state follows in which none with that id is, and
\* no run of processMission goes on for ever.
C28_EveryMissionEnds ==
  /\ \A id \in Ids : Unfinished(id) ~> ~Unfinished(id)
  /\ <>[](procs = <<>>)

\* both a resumed video mission and a mission enqueued in the session have
\* ended, one completed and one failed
C28_Witness ==
  /\ Len(missions) = 2
  /\ missions[1] = [ResumedMission EXCEPT !.status = "completed", !.result = Some(TRUE),
                                          !.progressMessage = Some("Done!"),
                                          !.operation = missions[1].operation]
  /\ missions[2].id = 2
  /\ missions[2].status = "failed"
  /\ procs = <<>>
  /\ updates = <<>>

\* the pending missions of a list, and the enqueues waiting for the render
PendingOf(ms) == SelectSeq(ms, LAMBDA m : m.status = "pending")
QueuedAppends == SelectSeq(updates, LAMBDA u : u.kind = "append")

\* C29: within a session a ledger entry is handed to processMission at most
\* once. A render starts at most one run, and that for the first entry that
\* is pending in the list it commits; the entry a render started is no longer
\* pending after the next render, at its position when the positions are
\* kept; the pending entries a render commits are pending entries of the list
\* before, less the one started from it, and entries the render appends, so
\* that no entry becomes pending again; and a run issues one image request or
\* one submit at most.
C29_StartedAtMostOnce ==
  /\ [][Render =>
          LET k == FindPending(missions')
          IN /\ (k = 0 => procs' = procs)
             /\ (k # 0 => /\ Len(procs') <= Len(procs) + 1
                          /\ SubSeq(procs', 1, Len(procs)) = procs
                          /\ Len(procs') = Len(procs) + 1 => procs'[Len(procs')].mission = missions'[k]
                          /\ missions'[k].status = "pending")
     ]_vars
  /\ [][(Render /\ FindPending(missions) # 0) =>
          /\ KeepsPositions => missions'[FindPending(missions)].status # "pending"
          /\ Len(PendingOf(missions')) <= Len(PendingOf(missions)) - 1 + Len(QueuedAppends)
          /\ \A j \in 1..Len(PendingOf(missions')) :
               \/ \E i \in 1..Len(PendingOf(missions)) : PendingOf(missions')[j] = PendingOf(missions)[i]
               \/ \E n \in 1..Len(QueuedAppends) : PendingOf(missions')[j] = QueuedAppends[n].arg
     ]_vars
  /\ [][(Render /\ FindPending(missions) = 0 /\ \A n \in 1..Len(updates) : updates[n].kind # "set") =>
          Len(PendingOf(missions')) <= Len(QueuedAppends)
     ]_vars
  /\ [](\A p \in 1..Len(procs) :
          /\ procs[p].images + procs[p].submits <= 1
          /\ procs[p].mission.type = "image-gen" => procs[p].submits = 0
          /\ procs[p].mission.type = "video-gen" => procs[p].images = 0)

\* the trigger has fired on the enqueue, the start, the handle and two
\* progress messages of a video mission, and one run is going for it
C29_Witness ==
  /\ updates = <<>>
  /\ Len(procs) = 1
  /\ procs[1].submits = 1
  /\ procs[1].msgIndex = 2
  /\ procs[1].pc = "sleep"
  /\ \E i \in 1..Len(missions) :
       /\ missions[i].id = procs[1].mission.id
       /\ missions[i].status = "in-progress"
       /\ missions[i].progressMessage = Some(loadingMessages[2])

\* C30: no step loses a persisted mission: every mission the key holds before
\* a step is among the missions it holds after the step, unless the step is a
\* render that commits a compaction and the mission is completed or failed
\* in the list committed before; in particular the page load does not write
\* the empty list of the first render over the stored ledger.
C30_PersistedMissionsKept ==
  [][\A k \in 1..Len(getMissionsFromStorage.items) :
       \/ \E j \in 1..Len(getMissionsFromStorage'.items) :
            Identity(getMissionsFromStorage'.items[j]) = Identity(getMissionsFromStorage.items[k])
       \/ /\ Render
          /\ \E n \in 1..Len(updates) : updates[n].kind = "clear"
    ]_vars

====
